---- MODULE Spec2Model ----
(***************************************************************************)
(* Model of the onboarding "document review & sign" application            *)
(* (src/sop_app.py).  The program is a Streamlit script: every user        *)
(* interaction (ticking a "Reviewed" checkbox, submitting the signature    *)
(* form, pressing Upload) re-runs the whole script for that user's         *)
(* session.  Sessions have private widget state (st.session_state) and     *)
(* share the file tree under docs/ and the signature log                   *)
(* signatures/review_signatures.csv.                                       *)
(***************************************************************************)
EXTENDS Naturals, Sequences, FiniteSets, TLC

VARIABLES
    docs,           \* file tree: category -> set of directory entries under its folder
    csv,            \* SIGNATURE_CSV on disk: [status, rows]
    session_state,  \* per session: widget key -> widget value
    pc,             \* per session: position of the running script
    run,            \* per session: locals of the running script and what the page shows
    clock,          \* wall clock read by datetime.utcnow()/now()
    tree,           \* catalog harness: the folder handed to list_files
    listing         \* catalog harness: the sequences returned by list_files so far

vars == <<docs, csv, session_state, pc, run, clock, tree, listing>>

-----------------------------------------------------------------------------
(* Bounds *)

\* number of script runs that carry a form submit (each reads the clock)
MaxClock == 2
\* number of list_files calls made by the catalog harness
MaxListCalls == 2

-----------------------------------------------------------------------------
(* Configuration (CATEGORIES, the supported extensions) *)

CATEGORIES == <<"Standard SOPs", "Technical Documents", "Safety Policies">>

Cats == {CATEGORIES[i] : i \in DOMAIN CATEGORIES}

CatIndex(c) == CHOOSE i \in DOMAIN CATEGORIES : CATEGORIES[i] = c

exts == {".pdf", ".docx", ".doc", ".txt", ".xlsx", ".csv", ".xls"}

Sessions == {"u1", "u2"}

-----------------------------------------------------------------------------
(* Paths.  A directory entry is a path relative to the category folder:    *)
(* dir is the tuple of sub-folder names, stem and suffix make up the last  *)
(* component (Path.name = stem + suffix), is_file tells a regular file     *)
(* from a directory.                                                       *)

Entry(dir, stem, suffix, isfile) ==
    [dir |-> dir, stem |-> stem, suffix |-> suffix, is_file |-> isfile]

\* Path.name
NameOf(p) == p.stem \o p.suffix

\* Path.parts below the category folder
Parts(p) == Append(p.dir, NameOf(p))

\* str.lower() on the suffixes that occur
Lower(s) ==
    CASE s = ".PDF" -> ".pdf"
      [] OTHER -> s

\* Python's order on the path components that occur (code point order)
PartOrder == <<"a.pdf", "b.PDF", "b.pdf", "c.txt", "notes.md", "old", "x.pdf">>

PartRank(s) == CHOOSE i \in DOMAIN PartOrder : PartOrder[i] = s

RECURSIVE PartsLess(_, _)
\* tuple comparison of Path parts, as PurePath.__lt__ does
PartsLess(a, b) ==
    IF a = <<>> THEN b # <<>>
    ELSE IF b = <<>> THEN FALSE
    ELSE IF Head(a) = Head(b) THEN PartsLess(Tail(a), Tail(b))
    ELSE PartRank(Head(a)) < PartRank(Head(b))

PathLess(p, q) == PartsLess(Parts(p), Parts(q))

RECURSIVE sorted(_)
\* sorted(folder.rglob("*")): the entries in increasing path order
sorted(S) ==
    IF S = {} THEN <<>>
    ELSE LET m == CHOOSE x \in S : \A y \in S \ {x} : PathLess(x, y)
         IN  <<m>> \o sorted(S \ {m})

\* a mutated filter: the is_file test dropped
KeepNoIsFile(p) == Lower(p.suffix) \in exts

\* the filter of list_files' comprehension
Keep(p) == p.is_file /\ Lower(p.suffix) \in exts

RECURSIVE FilterSeq(_)
FilterSeq(s) ==
    IF s = <<>> THEN <<>>
    ELSE IF Keep(Head(s)) THEN <<Head(s)>> \o FilterSeq(Tail(s))
    ELSE FilterSeq(Tail(s))

\* list_files(folder); folder = [exists, entries]
list_files(folder) ==
    IF ~folder.exists THEN <<>>
    ELSE FilterSeq(sorted(folder.entries))

-----------------------------------------------------------------------------
(* The signature log.  On disk a row is text: every cell a string (the two *)
(* timestamps are kept as the clock reading they were formatted from).     *)
(* In a DataFrame a cell is either a string or NaN.                        *)

\* pandas.read_csv's default na_values (keep_default_na=True)
NA_VALUES == {"", "#N/A", "#N/A N/A", "#NA", "-1.#IND", "-1.#QNAN", "-NaN", "-nan",
              "1.#IND", "1.#QNAN", "<NA>", "N/A", "NA", "NULL", "NaN", "None",
              "n/a", "nan", "null"}

NaN == [na |-> TRUE, s |-> ""]

Str(x) == [na |-> FALSE, s |-> x]

\* read_csv on one text cell: the NA tokens become NaN, other text is kept
ParseCell(x) == IF x \in NA_VALUES THEN NaN ELSE Str(x)

\* to_csv on one DataFrame cell: NaN is written as the empty field (na_rep='')
FormatCell(cell) == IF cell.na THEN "" ELSE cell.s

TextColumns == {"name", "email", "role", "category", "reviewed_files"}

ParseRow(r) ==
    [k \in DOMAIN r |-> IF k \in TextColumns THEN ParseCell(r[k]) ELSE r[k]]

FormatRow(r) ==
    [k \in DOMAIN r |-> IF k \in TextColumns THEN FormatCell(r[k]) ELSE r[k]]

\* pd.DataFrame([row]): the dict's strings as they are
FrameRow(row) ==
    [k \in DOMAIN row |-> IF k \in TextColumns THEN Str(row[k]) ELSE row[k]]

\* the header-only file written when SIGNATURE_CSV does not exist
EmptyCsv == [status |-> "ok", rows |-> <<>>]

\* startup: "if not SIGNATURE_CSV.exists(): ... to_csv"
EnsureCsv(f) == IF f.status = "missing" THEN EmptyCsv ELSE f

\* a mutated read_csv: a file that cannot be read counts as an empty log
read_csv_lenient(f) ==
    IF f.status = "ok"
    THEN [ok |-> TRUE, df |-> [i \in DOMAIN f.rows |-> ParseRow(f.rows[i])]]
    ELSE [ok |-> TRUE, df |-> <<>>]

\* pd.read_csv(SIGNATURE_CSV): raises unless the file is there and parses
read_csv(f) ==
    IF f.status = "ok"
    THEN [ok |-> TRUE, df |-> [i \in DOMAIN f.rows |-> ParseRow(f.rows[i])]]
    ELSE [ok |-> FALSE, df |-> <<>>]

\* a mutated concat: an earlier row of the same (email, category) is replaced
concatDedup(df, row) ==
    Append(SelectSeq(df, LAMBDA r : ~(r.email = Str(row.email)
                                      /\ r.category = Str(row.category))),
           FrameRow(row))

\* pd.concat([df, pd.DataFrame([row])], ignore_index=True)
concat(df, row) == Append(df, FrameRow(row))

\* df.to_csv(SIGNATURE_CSV, index=False): the whole file is rewritten
to_csv(df) == [status |-> "ok", rows |-> [i \in DOMAIN df |-> FormatRow(df[i])]]

\* get_signatures_df(): read_csv, an empty frame on any exception
get_signatures_df(f) == IF read_csv(f).ok THEN read_csv(f).df ELSE <<>>

RECURSIVE join_reversed(_, _)
\* a mutated join: the items taken from the last to the first
join_reversed(sep, xs) ==
    IF xs = <<>> THEN ""
    ELSE IF Len(xs) = 1 THEN xs[1]
    ELSE join_reversed(sep, Tail(xs)) \o sep \o xs[1]

RECURSIVE join(_, _)
\* sep.join(xs)
join(sep, xs) ==
    IF xs = <<>> THEN ""
    ELSE IF Len(xs) = 1 THEN xs[1]
    ELSE xs[1] \o sep \o join(sep, Tail(xs))

\* the row dict built by record_signature
MakeRow(ts, name, email, role, category, reviewed_files) ==
    [timestamp_utc |-> ts, timestamp_local |-> ts, name |-> name, email |-> email,
     role |-> role, category |-> category,
     reviewed_files |-> join("|", reviewed_files)]

-----------------------------------------------------------------------------
(* The file trees the sessions work on *)

FileA == Entry(<<>>, "a", ".pdf", TRUE)
FileB == Entry(<<>>, "b", ".pdf", TRUE)
DirOld == Entry(<<>>, "old", "", FALSE)
FileOldA == Entry(<<"old">>, "a", ".pdf", TRUE)

\* two documents, one document sharing its name with the first category, none
TreePlain ==
    [c \in Cats |->
        CASE c = "Standard SOPs" -> {FileA, FileB}
          [] c = "Technical Documents" -> {FileA}
          [] OTHER -> {}]

\* as TreePlain, with a sub-folder of the second category holding a second a.pdf
TreeSub ==
    [c \in Cats |->
        CASE c = "Standard SOPs" -> {FileA, FileB}
          [] c = "Technical Documents" -> {FileA, DirOld, FileOldA}
          [] OTHER -> {}]

InitTrees == {TreePlain, TreeSub}

\* the files an administrator uploads (uf.name)
UploadNames == {"a.pdf"}

UploadEntry(n) == CHOOSE e \in {FileA, FileB} : NameOf(e) = n

\* what a user types into the signature form
Forms ==
    { [name |-> "",   email |-> "jo@x.com", role |-> ""],
      [name |-> "Jo", email |-> "",         role |-> "Tech"],
      [name |-> "Jo", email |-> "jo@x.com", role |-> "Tech"],
      [name |-> "Jo", email |-> "N/A",      role |-> "N/A"] }

NoForm == [name |-> "", email |-> "", role |-> ""]

-----------------------------------------------------------------------------
(* Widgets.  A widget's value lives in st.session_state under its key; a   *)
(* widget met for the first time gets its default (unticked, empty text).  *)

\* a mutated key: the category left out
CheckboxKeyNoCat(c, fname) == "reviewed_" \o fname

\* key=f"reviewed_{category_name}_{f.name}"
CheckboxKey(c, fname) == "reviewed_" \o c \o "_" \o fname

NameKey(c) == "name_" \o c
EmailKey(c) == "email_" \o c
RoleKey(c) == "role_" \o c

EmptyFn == [k \in {} |-> FALSE]

\* files = list_files(folder); the category folders always exist (mkdir at startup)
Files(d, c) == list_files([exists |-> TRUE, entries |-> d[c]])

FileNames(fs) == [i \in DOMAIN fs |-> NameOf(fs[i])]

\* position of the first file whose checkbox key was already used in this run
\* (Streamlit raises DuplicateWidgetID there), 0 if there is none
DupAt(ns) ==
    LET D == {i \in DOMAIN ns : \E j \in 1..(i - 1) : ns[j] = ns[i]}
    IN  IF D = {} THEN 0 ELSE CHOOSE i \in D : \A j \in D : i <= j

\* first category of CATEGORIES[lo..hi] whose rendering raises, 0 if none
FirstCrash(d, lo, hi) ==
    LET K == {i \in lo..hi : DupAt(FileNames(Files(d, CATEGORIES[i]))) # 0}
    IN  IF K = {} THEN 0 ELSE CHOOSE i \in K : \A j \in K : i <= j

\* the widgets one pass of the loop body creates for category c, with defaults
CatWidgets(d, c) ==
    LET fs == Files(d, c)
        ns == FileNames(fs)
        k == DupAt(ns)
        shown == IF k = 0 THEN Len(ns) ELSE k - 1
        boxes == [key \in {CheckboxKey(c, ns[i]) : i \in 1..shown} |-> FALSE]
        form == IF fs # <<>> /\ k = 0
                THEN (NameKey(c) :> "") @@ (EmailKey(c) :> "") @@ (RoleKey(c) :> "")
                ELSE EmptyFn
    IN  boxes @@ form

RECURSIVE SegWidgets(_, _, _)
\* the widgets created by the loop over CATEGORIES[lo..hi], up to the first raise
SegWidgets(d, lo, hi) ==
    IF lo > hi THEN EmptyFn
    ELSE IF DupAt(FileNames(Files(d, CATEGORIES[lo]))) # 0
         THEN CatWidgets(d, CATEGORIES[lo])
         ELSE CatWidgets(d, CATEGORIES[lo]) @@ SegWidgets(d, lo + 1, hi)

\* reviewed = {}; reviewed[f.name] = st.checkbox(...): the dict's keys in
\* insertion order
ReviewedKeys(fs) ==
    LET ns == FileNames(fs)
    IN  SelectSeq([i \in DOMAIN ns |-> [n |-> ns[i], first |-> \A j \in 1..(i - 1) : ns[j] # ns[i]]],
                  LAMBDA x : x.first)

\* reviewed[fn], read from the session's widget state
Reviewed(ss, c, fn) == ss[CheckboxKey(c, fn)]

\* a mutated guard: any() in place of all()
any_reviewed(ss, c, fs) ==
    /\ fs # <<>>
    /\ \E i \in DOMAIN fs : Reviewed(ss, c, NameOf(fs[i]))

\* all_reviewed = all(reviewed.values()) if reviewed else False
all_reviewed(ss, c, fs) ==
    /\ fs # <<>>
    /\ \A i \in DOMAIN fs : Reviewed(ss, c, NameOf(fs[i]))

\* reviewed_files = [fn for fn, val in reviewed.items() if val]
reviewed_files(ss, c, fs) ==
    LET ks == ReviewedKeys(fs)
        on == SelectSeq(ks, LAMBDA x : Reviewed(ss, c, x.n))
    IN  [i \in DOMAIN on |-> on[i].n]

\* "elif not name or not email"
identity_missing(name, email) == name = "" \/ email = ""

-----------------------------------------------------------------------------
(* One script run of session s.  The interaction that causes the run is    *)
(* its trigger; the run then goes  main -> (write) -> sidebar -> done, or   *)
(* stops with an exception.  run[s] holds the run's locals and what the    *)
(* run has put on the page; both are dropped when the next run starts.     *)

NumCats == Len(CATEGORIES)

Trigger(kind, cat, fname, form) ==
    [kind |-> kind, cat |-> cat, fname |-> fname, form |-> form]

NoTrigger == Trigger("none", "", "", NoForm)

\* a run's locals and output before the script has done anything
BlankRun ==
    [trigger |-> NoTrigger, df |-> <<>>, row |-> <<>>, msg |-> "", exception |-> "",
     shown |-> <<>>, sign_df |-> <<>>]

FreshRun(t) == [BlankRun EXCEPT !.trigger = t]

\* a mutated ApplyTrigger: a checkbox click counts only once a name and an
\* email have been entered in the category's form
ApplyTriggerIdentified(ss, t) ==
    CASE t.kind = "toggle" ->
            IF ss[NameKey(t.cat)] = "" \/ ss[EmailKey(t.cat)] = ""
            THEN ss
            ELSE [ss EXCEPT ![CheckboxKey(t.cat, t.fname)] = ~@]
      [] t.kind = "submit" ->
            [ss EXCEPT ![NameKey(t.cat)] = t.form.name,
                       ![EmailKey(t.cat)] = t.form.email,
                       ![RoleKey(t.cat)] = t.form.role]
      [] OTHER -> ss

\* the widget values the browser sends with the interaction
ApplyTrigger(ss, t) ==
    CASE t.kind = "toggle" ->
            [ss EXCEPT ![CheckboxKey(t.cat, t.fname)] = ~@]
      [] t.kind = "submit" ->
            [ss EXCEPT ![NameKey(t.cat)] = t.form.name,
                       ![EmailKey(t.cat)] = t.form.email,
                       ![RoleKey(t.cat)] = t.form.role]
      [] OTHER -> ss

\* script start: the interaction's widget values arrive, the folders and the
\* signature CSV are made sure to exist
Begin(s, t) ==
    /\ pc[s] \in {"new", "idle", "stopped"}
    /\ session_state' = [session_state EXCEPT ![s] = ApplyTrigger(@, t)]
    /\ csv' = EnsureCsv(csv)
    /\ run' = [run EXCEPT ![s] = FreshRun(t)]
    /\ pc' = [pc EXCEPT ![s] = "main"]
    /\ clock' = IF t.kind = "submit" THEN clock + 1 ELSE clock
    /\ UNCHANGED <<docs, tree, listing>>

\* the user presses R / the page is loaded
Rerun(s) == Begin(s, NoTrigger)

\* the user clicks the "Reviewed" checkbox of a file shown under category c
Toggle(s, c, fname) ==
    /\ CheckboxKey(c, fname) \in DOMAIN session_state[s]
    /\ Begin(s, Trigger("toggle", c, fname, NoForm))

\* the user presses "Sign and Record Acknowledgement" in category c's form
Submit(s, c, form) ==
    /\ NameKey(c) \in DOMAIN session_state[s]
    /\ clock < MaxClock
    /\ Begin(s, Trigger("submit", c, "", form))

\* the administrator presses "Upload" in the sidebar
Upload(s, c, fname) ==
    /\ pc[s] = "idle"
    /\ Begin(s, Trigger("upload", c, fname, NoForm))

\* the submit this run carries gets as far as record_signature
Recording(ss, d, t) ==
    /\ t.kind = "submit"
    /\ FirstCrash(d, 1, CatIndex(t.cat)) = 0
    /\ all_reviewed(ss, t.cat, Files(d, t.cat))
    /\ ~identity_missing(t.form.name, t.form.email)

\* the message the submit's branch shows when it does not record
SubmitError(ss, d, t) ==
    IF t.kind # "submit" \/ Files(d, t.cat) = <<>> THEN ""
    ELSE IF ~all_reviewed(ss, t.cat, Files(d, t.cat)) THEN "not_reviewed"
    ELSE IF identity_missing(t.form.name, t.form.email) THEN "no_identity"
    ELSE ""

\* the loop over CATEGORIES, up to and including the category whose form was
\* submitted when the submit is accepted (record_signature then reads the
\* log), to its end otherwise
Main(s) ==
    /\ pc[s] = "main"
    /\ LET t == run[s].trigger
           hi == IF t.kind = "submit" THEN CatIndex(t.cat) ELSE NumCats
           ss == session_state[s] @@ SegWidgets(docs, 1, hi)
           rec == Recording(ss, docs, t)
           all == session_state[s] @@ SegWidgets(docs, 1, NumCats)
           r == read_csv(csv)
       IN  IF rec
           THEN /\ session_state' = [session_state EXCEPT ![s] = ss]
                /\ IF r.ok
                   THEN /\ run' = [run EXCEPT ![s].df = r.df,
                                       ![s].row = <<MakeRow(clock, t.form.name, t.form.email,
                                                     t.form.role, t.cat,
                                                     reviewed_files(ss, t.cat, Files(docs, t.cat)))>>]
                        /\ pc' = [pc EXCEPT ![s] = "write"]
                   ELSE /\ run' = [run EXCEPT ![s].exception = "read_csv"]
                        /\ pc' = [pc EXCEPT ![s] = "failed"]
           ELSE /\ session_state' = [session_state EXCEPT ![s] = all]
                /\ IF FirstCrash(docs, 1, NumCats) # 0
                   THEN /\ run' = [run EXCEPT
                                 ![s].msg = IF FirstCrash(docs, 1, hi) = 0
                                            THEN SubmitError(all, docs, t) ELSE "",
                                 ![s].exception = "DuplicateWidgetID"]
                        /\ pc' = [pc EXCEPT ![s] = "failed"]
                   ELSE /\ run' = [run EXCEPT ![s].msg = SubmitError(all, docs, t)]
                        /\ pc' = [pc EXCEPT ![s] = "sidebar"]
    /\ UNCHANGED <<docs, csv, clock, tree, listing>>

\* the rest of record_signature (concat, to_csv, return row), st.success and
\* st.json(row), then the rest of the loop over CATEGORIES
Write(s) ==
    /\ pc[s] = "write"
    /\ LET t == run[s].trigger
           lo == CatIndex(t.cat) + 1
           row == run[s].row[1]
           crash == FirstCrash(docs, lo, NumCats) # 0
       IN  /\ csv' = to_csv(concat(run[s].df, row))
           /\ session_state' =
                 [session_state EXCEPT ![s] = @ @@ SegWidgets(docs, lo, NumCats)]
           /\ run' = [run EXCEPT ![s].msg = "success",
                                 ![s].shown = <<row>>,
                                 ![s].df = <<>>,
                                 ![s].row = <<>>,
                                 ![s].exception = IF crash THEN "DuplicateWidgetID" ELSE ""]
           /\ pc' = [pc EXCEPT ![s] = IF crash THEN "failed" ELSE "sidebar"]
    /\ UNCHANGED <<docs, clock, tree, listing>>

\* the sidebar: the signature table, then the upload when "Upload" was pressed
Sidebar(s) ==
    /\ pc[s] = "sidebar"
    /\ LET t == run[s].trigger
       IN  /\ run' = [run EXCEPT ![s].sign_df = get_signatures_df(csv)]
           /\ docs' = IF t.kind = "upload"
                      THEN [docs EXCEPT ![t.cat] = @ \cup {UploadEntry(t.fname)}]
                      ELSE docs
    /\ pc' = [pc EXCEPT ![s] = "done"]
    /\ UNCHANGED <<csv, session_state, clock, tree, listing>>

\* the run is over: its locals are gone, the page waits for the next
\* interaction ("stopped": the page ends at the exception, without sidebar)
Finish(s) ==
    /\ pc[s] \in {"done", "failed"}
    /\ pc' = [pc EXCEPT ![s] = IF pc[s] = "done" THEN "idle" ELSE "stopped"]
    /\ run' = [run EXCEPT ![s] = BlankRun]
    /\ UNCHANGED <<docs, csv, session_state, clock, tree, listing>>

-----------------------------------------------------------------------------------------------------------------------------------------------------
(* The application *)

NoTree == [exists |-> FALSE, entries |-> {}]

InitOn(trees) ==
    /\ docs \in trees
    /\ csv = EmptyCsv
    /\ session_state = [s \in Sessions |-> EmptyFn]
    /\ pc = [s \in Sessions |-> "new"]
    /\ run = [s \in Sessions |-> BlankRun]
    /\ clock = 0
    /\ tree = NoTree
    /\ listing = <<>>

\* what a user does on the page, and the steps of the script run it causes
UserStep(s) ==
    \/ Rerun(s)
    \/ \E c \in Cats, n \in {"a.pdf", "b.pdf"} : Toggle(s, c, n)
    \/ \E c \in Cats, f \in Forms : Submit(s, c, f)
    \/ Main(s)
    \/ Write(s)
    \/ Sidebar(s)
    \/ Finish(s)

\* the administrator's upload form
AdminStep(s) == \E c \in Cats, n \in UploadNames : Upload(s, c, n)

(* One session: every interaction is handled to its end before the next.   *)
Init == InitOn(InitTrees)

Next == UserStep("u1") \/ AdminStep("u1")

Spec == Init /\ [][Next]_vars

(* Two sessions signing at the same time, each script run in its own       *)
(* thread, over a tree with a single document.                             *)
TreeOne == [c \in Cats |-> IF c = "Standard SOPs" THEN {FileA} ELSE {}]

InitRace == InitOn({TreeOne})

NextRace == \E s \in Sessions : UserStep(s)

SpecRace == InitRace /\ [][NextRace]_vars

(* One session, and a signature store that can be lost: the file is       *)
(* deleted, or its content is replaced by something read_csv cannot parse  *)
(* (an empty file raises EmptyDataError).                                  *)
StoreLost ==
    /\ csv' = [status |-> "missing", rows |-> <<>>]
    /\ UNCHANGED <<docs, session_state, pc, run, clock, tree, listing>>

StoreCorrupt ==
    /\ csv' = [status |-> "unreadable", rows |-> <<>>]
    /\ UNCHANGED <<docs, session_state, pc, run, clock, tree, listing>>

InitStore == InitOn({TreePlain})

NextStore == UserStep("u1") \/ StoreLost \/ StoreCorrupt

SpecStore == InitStore /\ [][NextStore]_vars

(* The catalog alone: list_files called on a folder whose content does not *)
(* change between the calls.                                               *)
FileBUpper == Entry(<<>>, "b", ".PDF", TRUE)
FileC == Entry(<<>>, "c", ".txt", TRUE)
FileNotes == Entry(<<>>, "notes", ".md", TRUE)
DirX == Entry(<<>>, "x", ".pdf", FALSE)

CatalogEntries == {FileA, FileBUpper, FileC, FileNotes, DirOld, FileOldA, DirX}

\* an entry below a sub-folder is there only with the sub-folder
WellFormed(S) == FileOldA \in S => DirOld \in S

CatalogTrees ==
    {NoTree} \cup
    {[exists |-> TRUE, entries |-> S] : S \in {T \in SUBSET CatalogEntries : WellFormed(T)}}

InitCatalog ==
    /\ docs = TreePlain
    /\ csv = EmptyCsv
    /\ session_state = [s \in Sessions |-> EmptyFn]
    /\ pc = [s \in Sessions |-> "new"]
    /\ run = [s \in Sessions |-> BlankRun]
    /\ clock = 0
    /\ tree \in CatalogTrees
    /\ listing = <<>>

ListCall ==
    /\ Len(listing) < MaxListCalls
    /\ listing' = Append(listing, list_files(tree))
    /\ UNCHANGED <<docs, csv, session_state, pc, run, clock, tree>>

NextCatalog == ListCall

SpecCatalog == InitCatalog /\ [][NextCatalog]_vars

-----------------------------------------------------------------------------
(* Properties *)

Sop == CATEGORIES[1]
Tech == CATEGORIES[2]

\* session s's step ends its record_signature call: the log is rewritten
WriteStep(s) == pc[s] = "write" /\ pc'[s] # "write"

\* session s's step starts a script run
BeginStep(s) == pc[s] \in {"new", "idle", "stopped"} /\ pc'[s] = "main"

\* the checkbox of document n of category c is on the page of s and ticked
Ticked(ss, c, n) ==
    /\ CheckboxKey(c, n) \in DOMAIN ss
    /\ ss[CheckboxKey(c, n)] = TRUE

\* category c lists at least one document and all of them are ticked for s
Complete(ss, d, c) ==
    /\ Files(d, c) # <<>>
    /\ \A i \in DOMAIN Files(d, c) : Ticked(ss, c, NameOf(Files(d, c)[i]))

\* the time stamps of the events of a log, in order
Stamps(rows) == [i \in DOMAIN rows |-> rows[i].timestamp_utc]

\* C1: the log grows only at the end of a record_signature call made for a
\* category that lists at least one document and has every listed document
\* ticked in the submitting session; a submit for a category with no
\* document or with an unticked document does not get to record_signature
\* and leaves the log as it is.
C1_SignOnlyWhenAllReviewed ==
    [][ /\ (csv' # csv =>
               \E s \in Sessions :
                  /\ WriteStep(s)
                  /\ Complete(session_state[s], docs, run[s].trigger.cat))
        /\ \A s \in Sessions :
              (/\ pc[s] = "main"
               /\ run[s].trigger.kind = "submit"
               /\ ~Complete(session_state[s], docs, run[s].trigger.cat))
              => (pc'[s] # "write" /\ csv' = csv) ]_vars

\* C1 witness: a signature has just been recorded for a fully reviewed category
C1_Witness ==
    /\ pc["u1"] = "sidebar"
    /\ run["u1"].msg = "success"
    /\ Len(csv.rows) = 1
    /\ Complete(session_state["u1"], docs, csv.rows[1].category)

\* C2 (as claimed): a record_signature call that nothing interferes with
\* leaves the log equal to the log before the call plus the new row at its
\* end, and returns that row.
C2_AppendsOneKeepsPrior ==
    [][ \A s \in Sessions :
           (WriteStep(s) /\ read_csv(csv).df = run[s].df)
           => /\ csv'.rows = Append(csv.rows, run[s].row[1])
              /\ run'[s].shown = <<run[s].row[1]>> ]_vars

\* C3 (as claimed): under any interleaving of the sessions' read and write
\* steps, an event that is in the log is in the log after every step.
C3_NeverRemoved ==
    [][ \A i \in DOMAIN csv.rows :
           \E j \in DOMAIN csv'.rows :
              csv'.rows[j].timestamp_utc = csv.rows[i].timestamp_utc ]_vars

\* C3 (amended): a record_signature call keeps every event it read, and only
\* record_signature's write changes the log; so no event is lost by a call
\* unless another session wrote between the call's read and its write.
C3_KeepsWhatItRead ==
    [][ /\ (csv'.rows # csv.rows => \E s \in Sessions : WriteStep(s))
        /\ \A s \in Sessions :
              WriteStep(s) =>
                 /\ Len(csv'.rows) = Len(run[s].df) + 1
                 /\ \A i \in DOMAIN run[s].df :
                       csv'.rows[i].timestamp_utc = run[s].df[i].timestamp_utc
                 /\ (Stamps(csv.rows) = Stamps(run[s].df) =>
                        \A i \in DOMAIN csv.rows :
                           csv'.rows[i].timestamp_utc = csv.rows[i].timestamp_utc) ]_vars

\* C3 witness: both sessions have been told their signature was recorded and
\* the log holds one event: both read the empty log, then both wrote
C3_Witness ==
    /\ run["u1"].msg = "success"
    /\ run["u2"].msg = "success"
    /\ Len(csv.rows) = 1

\* the '|'-joined text of up to three names, written out
Bar(ns) ==
    CASE Len(ns) = 0 -> ""
      [] Len(ns) = 1 -> ns[1]
      [] Len(ns) = 2 -> ns[1] \o "|" \o ns[2]
      [] OTHER -> ns[1] \o "|" \o ns[2] \o "|" \o ns[3]

\* the names of the listed documents of c that are ticked for s, in list order
TickedNames(ss, d, c) ==
    LET ns == FileNames(Files(d, c))
    IN  SelectSeq(ns, LAMBDA n : Ticked(ss, c, n))

\* C4: the event a record_signature call appends holds the caller's file
\* names, in the caller's order, joined with '|'; and no step (a later
\* toggle included) changes the file list of an event that is in the log.
C4_FileListAsSupplied ==
    [][ /\ \A i \in DOMAIN csv.rows :
              /\ i \in DOMAIN csv'.rows
              /\ csv'.rows[i].reviewed_files = csv.rows[i].reviewed_files
        /\ \A s \in Sessions :
              WriteStep(s) =>
                 csv'.rows[Len(csv'.rows)].reviewed_files =
                    Bar(TickedNames(session_state[s], docs, run[s].trigger.cat)) ]_vars

\* C4 witness: the event's list is a.pdf|b.pdf and a.pdf has been unticked since
C4_Witness ==
    /\ Len(csv.rows) = 1
    /\ csv.rows[1].reviewed_files = "a.pdf|b.pdf"
    /\ pc["u1"] = "idle"
    /\ ~Ticked(session_state["u1"], Sop, "a.pdf")

\* C5 (as claimed): no event in the log has an empty name or an empty email.
C5_NoEmptyIdentityInLog ==
    \A i \in DOMAIN csv.rows : csv.rows[i].name # "" /\ csv.rows[i].email # ""

\* no name and no email has reached the script from session s: every name
\* and email field of its forms still holds the empty default
NoIdentity(ss) ==
    \A c \in Cats :
       /\ (NameKey(c) \in DOMAIN ss => ss[NameKey(c)] = "")
       /\ (EmailKey(c) \in DOMAIN ss => ss[EmailKey(c)] = "")

\* session s's step starts the run caused by a click on the checkbox of (c, n)
ToggleStep(s, c, n) ==
    /\ BeginStep(s)
    /\ run'[s].trigger.kind = "toggle"
    /\ run'[s].trigger.cat = c
    /\ run'[s].trigger.fname = n

\* the ticks of the documents (c, n) on the page, as a set
TickSet(ss) ==
    {x \in Cats \X {"a.pdf", "b.pdf"} : Ticked(ss, x[1], x[2])}

C7_CategoriesIndependent ==
    [][ \A s \in Sessions, c \in Cats, n \in {"a.pdf", "b.pdf"} :
           ToggleStep(s, c, n) =>
              \A b \in Cats \ {c} :
                 /\ \A m \in {"a.pdf", "b.pdf"} :
                       Ticked(session_state'[s], b, m) = Ticked(session_state[s], b, m)
                 /\ Complete(session_state'[s], docs, b) = Complete(session_state[s], docs, b) ]_vars

\* C7 witness: every document of the first category is ticked, and a.pdf of
\* the second category, which has the same name, is not
C7_Witness ==
    /\ pc["u1"] = "idle"
    /\ Complete(session_state["u1"], docs, Sop)
    /\ CheckboxKey(Tech, "a.pdf") \in DOMAIN session_state["u1"]
    /\ ~Ticked(session_state["u1"], Tech, "a.pdf")
    /\ ~Complete(session_state["u1"], docs, Tech)

\* session s's step is the sidebar's get_signatures_df call
SidebarStep(s) == pc[s] = "sidebar" /\ pc'[s] # "sidebar"

\* session s's step takes an accepted submit into record_signature's read
ReadStep(s) ==
    /\ pc[s] = "main"
    /\ pc'[s] # "main"
    /\ run[s].trigger.kind = "submit"
    /\ Complete(session_state[s], docs, run[s].trigger.cat)
    /\ run[s].trigger.form.name # ""
    /\ run[s].trigger.form.email # ""

SupportedSuffixes == {".pdf", ".PDF", ".docx", ".doc", ".txt", ".xlsx", ".xls", ".csv"}

\* the elements of a sequence
Range(q) == {q[i] : i \in DOMAIN q}

SignedBefore(s) ==
    \E i \in DOMAIN csv.rows :
       /\ csv.rows[i].email = run[s].row[1].email
       /\ csv.rows[i].category = run[s].row[1].category

\* C10: signing locks nothing: a record_signature call for an email and a
\* category that already have an event in the log appends one more event
\* and keeps the earlier ones, and the checkboxes of a signed category can
\* still be clicked.
C10_SignAgainAppends ==
    [][ \A s \in Sessions :
           /\ (WriteStep(s) /\ SignedBefore(s))
              => /\ Len(csv'.rows) = Len(csv.rows) + 1
                 /\ csv'.rows[Len(csv'.rows)].email = run[s].row[1].email
                 /\ csv'.rows[Len(csv'.rows)].category = run[s].row[1].category
           /\ \A c \in Cats, n \in {"a.pdf", "b.pdf"} :
                 (ToggleStep(s, c, n) /\ csv.rows # <<>>)
                 => Ticked(session_state'[s], c, n) = ~Ticked(session_state[s], c, n) ]_vars

\* C10 witness: the log holds two events of the same email and category, and
\* a document of that category has been unticked after the second one
C10_Witness ==
    /\ Len(csv.rows) = 2
    /\ csv.rows[1].email = csv.rows[2].email
    /\ csv.rows[1].email = "jo@x.com"
    /\ csv.rows[1].category = csv.rows[2].category
    /\ pc["u1"] = "idle"
    /\ ~Ticked(session_state["u1"], csv.rows[1].category, "a.pdf")

\* the review flag the page holds for the listed document f of category c:
\* the value of the checkbox created for it, whose key is built from f.name
FlagOf(ss, c, f) == Ticked(ss, c, NameOf(f))

\* C11 (as claimed): within one category every listed document has a review
\* flag of its own, also two documents of the same name in different
\* sub-folders: a click on the checkbox of one listed document leaves the
\* flag of every other listed document of the category as it was, and the
\* file list of a recorded signature has one entry per listed document.
C11_OwnFlagPerDocument ==
    [][ \A s \in Sessions, c \in Cats :
           LET fs == Files(docs, c)
           IN  /\ \A i \in DOMAIN fs, j \in DOMAIN fs :
                     (i # j /\ ToggleStep(s, c, NameOf(fs[i])))
                     => FlagOf(session_state'[s], c, fs[j]) =
                           FlagOf(session_state[s], c, fs[j])
               /\ (WriteStep(s) /\ run[s].trigger.cat = c)
                  => Len(reviewed_files(session_state[s], c, fs)) = Len(fs) ]_vars

====
